---- MODULE Spec2Model ----
(***************************************************************************)
(* The task-queue execution engine of the two MQTT command receivers,     *)
(* mqtt_manager.py and mqtt2ros.py (class NavigationManager in both).      *)
(*                                                                         *)
(* Time is counted in units of 0.5 s, the largest unit that divides the    *)
(* three durations of mqtt_manager.py: 0.5 s (task_completion_delay),      *)
(* 1.5 s (gripper dwell) and 2.0 s (navigation / arm settle window).       *)
(*                                                                         *)
(* Python's None is the empty tuple << >>; an optional value v is <<v>>.   *)
(* A dict is a function from its keys to its values; a payload that is     *)
(* not a dict (ast.literal_eval failed or gave another type) is the        *)
(* function NotDict, whose only key is the reserved key "str".             *)
(***************************************************************************)
EXTENDS Integers, Sequences, FiniteSets, TLC

VARIABLES
    node,                     \* which receiver runs: "mqtt_manager" or "mqtt2ros"
    now,                      \* the value time.time() returns
    nav_status,               \* self.nav_status
    last_nav_status,          \* self.last_nav_status
    arm_running_status,       \* self.arm_running_status
    last_arm_running_status,  \* self.last_arm_running_status
    task_queue,               \* self.task_queue
    current_task,             \* self.current_task
    task_paused,              \* self.task_paused            (mqtt_manager)
    task_completion_delay,    \* self.task_completion_delay  (mqtt_manager)
    task_completion_time,     \* self.task_completion_time   (mqtt_manager)
    nav_target,               \* self.nav_target                (mqtt2ros)
    command,                  \* self.command                   (mqtt2ros)
    send_cmd,                 \* self.send_cmd                  (mqtt2ros)
    waiting_for_end_effector, \* self.waiting_for_end_effector  (mqtt2ros)
    accepted,                 \* history: number of Task objects created by add_task
    dispatch_log,             \* history: ids of the tasks made current, in order
    pub_count,                \* history: publish calls made by the dispatch of each task
    last_pub,                 \* history: the last message handed to a rospy publisher
    completed,                \* history: the tasks completed, with the time recorded
    faulted,                  \* history: ids of the current tasks a drain cleared
    dropped,                  \* history: ids of the queued tasks a drain discarded
    publish_failed,           \* history: ids of the tasks whose publish call raised
    queue_lock,               \* who holds self.queue_lock: "free" or "executor"
    pending,                  \* the add_task call waiting for self.queue_lock
    lock,                     \* who holds self.lock: "unset" (no such attribute), "free" or a thread
    pc,                       \* where each thread is: main (__init__), executor, and the
                              \* callback threads nav and arm (the argument of the call)
    nav_reported,             \* history: update_nav_status ran since the Navigation task in flight was dispatched
    last_event                \* history: what the handler of the last step did

vars == <<node, now, nav_status, last_nav_status, arm_running_status,
          last_arm_running_status, task_queue, current_task, task_paused,
          task_completion_delay, task_completion_time, nav_target, command,
          send_cmd, waiting_for_end_effector, accepted, dispatch_log,
          pub_count, last_pub, completed, faulted, dropped, publish_failed,
          queue_lock, pending, lock, pc, nav_reported, last_event>>

\* the fields of the NavigationManager of mqtt2ros.py that mqtt_manager.py lacks
ros_only == <<nav_target, command, send_cmd, waiting_for_end_effector>>
\* the fields of the NavigationManager of mqtt_manager.py that mqtt2ros.py lacks
manager_only == <<task_paused, task_completion_delay, task_completion_time>>
\* the threads of mqtt_manager.py at queue_lock
threads == <<queue_lock, pending>>
\* self.lock and the positions of the threads
locks == <<lock, pc>>

-----------------------------------------------------------------------------
(* Bounds of the model *)

MaxTime == 5
MaxTasks == 2

(* Durations of mqtt_manager.py in units of 0.5 s *)

NavSettle == 4
ArmSettle == 4
GripperDwell == 3
InitialDelay == 1

-----------------------------------------------------------------------------
(* Python values *)

None == << >>
Some(v) == <<v>>
The(o) == o[1]

NotDict == [str |-> 1]
IsDict(p) == "str" \notin DOMAIN p

\* dict.get(key, default)
Get(d, key, default) == IF key \in DOMAIN d THEN d[key] ELSE default


-----------------------------------------------------------------------------
(* Inbound MQTT messages: the topic on_message dispatches on, and the      *)
(* payload ast.literal_eval returned.  Arm coordinates are in thousandths. *)

NavPayloads ==
    { [x |-> 1, y |-> 2, z |-> 0],
      [x |-> 3, y |-> 1, z |-> 0, orientation |-> [z |-> 1, w |-> 0]] }
ArmCommandPayloads == { [command |-> 1], [command |-> 7] }
ArmCoordinatePayloads ==
    { [x |-> 100, y |-> 200, z |-> 300, rx |-> 0, ry |-> 90, rz |-> 0] }
GripperPayloads == { [command |-> 2], [command |-> 3] }

Messages ==
    [topic : {"robot/navigation"}, payload : NavPayloads \cup {NotDict}]
    \cup [topic : {"robot/arm/control"}, payload : ArmCommandPayloads \cup {NotDict}]
    \cup [topic : {"robot/arm/coordinate"}, payload : ArmCoordinatePayloads \cup {NotDict}]
    \cup [topic : {"robot/gripper/control"}, payload : GripperPayloads \cup {NotDict}]
    \cup [topic : {"robot/navigation_status"}, payload : {NotDict}]

\* the values of NavigationStatus.state the status feed reports
NavStates == 1..5

-----------------------------------------------------------------------------
(* History records *)

\* op: the handler; ret: what add_task returned; id, task_type, check, elapsed:
\* the task _is_task_completed was called on, its verdict and the elapsed time
\* it computed; dispatched: the id of the task the step made current; sleep:
\* whether the iteration called rate.sleep() inside the with block ("locked")
\* or after it; state, running: the value a status callback was called with
NoEvent == [op |-> "none", ret |-> "none", id |-> 0, task_type |-> "none",
            check |-> "none", elapsed |-> 0, dispatched |-> 0, sleep |-> "none",
            state |-> 0, running |-> FALSE]
NoPub == [topic |-> "none", msg |-> [data |-> 0], id |-> 0]

Ids(q) == {q[i].id : i \in 1..Len(q)}

\* the positions of the threads once NavigationManager() has returned: the
\* executor is between two iterations, no status callback is running
Constructed == [main |-> "done", executor |-> "loop", nav |-> None, arm |-> None]

-----------------------------------------------------------------------------
(* mqtt_manager.py : the status callbacks *)

\* mutant of update_nav_status_locked: on a fault (1) or an override (4) the
\* callback takes queue_lock inside self.lock to pause and drain the queue
update_nav_status_takes_queue_lock(state) ==
    /\ state \in {1, 4} => queue_lock = "free"
    /\ node = "mqtt_manager"
    /\ IF Some(state) # last_nav_status
         THEN /\ nav_status' = state
              /\ last_nav_status' = Some(state)
         ELSE UNCHANGED <<nav_status, last_nav_status>>
    /\ IF state \in {1, 4}
         THEN /\ task_paused' = TRUE
              /\ current_task' = None
              /\ task_queue' = << >>
         ELSE UNCHANGED <<task_paused, current_task, task_queue>>
    /\ nav_reported' = (current_task' # None /\ The(current_task').task_type = "navigation")
    /\ UNCHANGED <<node, threads, ros_only, now, arm_running_status, last_arm_running_status,
                   task_completion_delay, task_completion_time, accepted, dispatch_log,
                   pub_count, last_pub, completed, faulted, dropped, publish_failed>>
    /\ last_event' = [NoEvent EXCEPT !.op = "update_nav_status", !.state = state]

\* mutant of update_nav_status_locked: a goal-reached report (2) resumes a
\* paused queue
update_nav_status_resumes(state) ==
    /\ node = "mqtt_manager"
    /\ IF Some(state) # last_nav_status
         THEN /\ nav_status' = state
              /\ last_nav_status' = Some(state)
         ELSE UNCHANGED <<nav_status, last_nav_status>>
    /\ task_paused' = (task_paused /\ state # 2)
    /\ nav_reported' = (current_task # None /\ The(current_task).task_type = "navigation")
    /\ UNCHANGED <<node, threads, ros_only, now, arm_running_status, last_arm_running_status,
                   task_queue, current_task, task_completion_delay,
                   task_completion_time, accepted, dispatch_log, pub_count,
                   last_pub, completed, faulted, dropped, publish_failed>>
    /\ last_event' = [NoEvent EXCEPT !.op = "update_nav_status", !.state = state]

\* mutant of update_nav_status_locked: the callback itself pauses and drains
\* the queue on a fault (1) or an override (4)
update_nav_status_pauses(state) ==
    /\ node = "mqtt_manager"
    /\ IF Some(state) # last_nav_status
         THEN /\ nav_status' = state
              /\ last_nav_status' = Some(state)
         ELSE UNCHANGED <<nav_status, last_nav_status>>
    /\ IF state \in {1, 4}
         THEN /\ task_paused' = TRUE
              /\ current_task' = None
              /\ task_queue' = << >>
         ELSE UNCHANGED <<task_paused, current_task, task_queue>>
    /\ nav_reported' = (current_task' # None /\ The(current_task').task_type = "navigation")
    /\ UNCHANGED <<node, threads, ros_only, now, arm_running_status, last_arm_running_status,
                   task_completion_delay, task_completion_time, accepted, dispatch_log,
                   pub_count, last_pub, completed, faulted, dropped, publish_failed>>
    /\ last_event' = [NoEvent EXCEPT !.op = "update_nav_status", !.state = state]

\* lines 100-105, the block update_nav_status runs under self.lock
update_nav_status_locked(state) ==
    /\ node = "mqtt_manager"
    /\ IF Some(state) # last_nav_status
         THEN /\ nav_status' = state
              /\ last_nav_status' = Some(state)
         ELSE UNCHANGED <<nav_status, last_nav_status>>
    /\ nav_reported' = (current_task # None /\ The(current_task).task_type = "navigation")
    /\ UNCHANGED <<node, threads, ros_only, now, arm_running_status, last_arm_running_status,
                   task_queue, current_task, task_paused, task_completion_delay,
                   task_completion_time, accepted, dispatch_log, pub_count,
                   last_pub, completed, faulted, dropped, publish_failed>>
    /\ last_event' = [NoEvent EXCEPT !.op = "update_nav_status", !.state = state]

\* update_nav_status, atomic for the other threads
update_nav_status(state) ==
    /\ update_nav_status_locked(state)
    /\ UNCHANGED locks

\* lines 91-95, the block update_arm_status runs under self.lock
update_arm_status_locked(running_status) ==
    /\ node = "mqtt_manager"
    /\ IF Some(running_status) # last_arm_running_status
         THEN /\ arm_running_status' = running_status
              /\ last_arm_running_status' = Some(running_status)
         ELSE UNCHANGED <<arm_running_status, last_arm_running_status>>
    /\ UNCHANGED <<node, nav_reported, threads, ros_only, now, nav_status, last_nav_status,
                   task_queue, current_task, task_paused, task_completion_delay,
                   task_completion_time, accepted, dispatch_log, pub_count,
                   last_pub, completed, faulted, dropped, publish_failed>>
    /\ last_event' = [NoEvent EXCEPT !.op = "update_arm_status",
                                     !.running = running_status]

\* update_arm_status, atomic for the other threads
update_arm_status(running_status) ==
    /\ update_arm_status_locked(running_status)
    /\ UNCHANGED locks

-----------------------------------------------------------------------------
(* mqtt_manager.py : add_task and the message handlers *)

\* Task(task_type, payload), with the identity of the object as id
Task(id, task_type, payload) ==
    [id |-> id, task_type |-> task_type, payload |-> payload, start_time |-> None]

\* mutants of add_task_queue: the task is put at the head; the pause is ignored
add_task_queue_at_head(task_type, payload) ==
    IF task_paused
      THEN task_queue
      ELSE <<Task(accepted + 1, task_type, payload)>> \o task_queue

add_task_queue_ignores_pause(task_type, payload) ==
    Append(task_queue, Task(accepted + 1, task_type, payload))

\* add_task under queue_lock: the queue it leaves and the value it returns
add_task_queue(task_type, payload) ==
    IF task_paused
      THEN task_queue
      ELSE Append(task_queue, Task(accepted + 1, task_type, payload))

add_task_ret == IF task_paused THEN "False" ELSE "True"

add_task(task_type, payload) ==
    /\ task_queue' = add_task_queue(task_type, payload)
    /\ accepted' = IF task_paused THEN accepted ELSE accepted + 1
    /\ last_event' = [NoEvent EXCEPT !.op = "add_task", !.ret = add_task_ret,
                                     !.id = IF task_paused THEN 0 ELSE accepted + 1]

\* mutant of handle_gripper_command: the command code is not validated
handle_gripper_command_any_code(payload) ==
    IF IsDict(payload) THEN "gripper" ELSE "reject"

\* the handler's verdict on a payload: the TaskType it enqueues, or "reject"
handle_navigation(payload) ==
    IF IsDict(payload) THEN "navigation" ELSE "reject"

handle_arm_command(payload) ==
    IF IsDict(payload)
      THEN IF Get(payload, "command", 0) \notin {0, 1, 2, 3}
             THEN "reject" ELSE "arm_command"
      ELSE "reject"

handle_arm_coordinate_command(payload) ==
    IF IsDict(payload) THEN "arm_coordinate" ELSE "reject"

handle_gripper_command(payload) ==
    IF IsDict(payload)
      THEN IF Get(payload, "command", 1) \notin {1, 2}
             THEN "reject" ELSE "gripper"
      ELSE "reject"

\* on_message: which handler the topic selects
Route(m) ==
    IF m.topic = "robot/navigation" THEN handle_navigation(m.payload)
    ELSE IF m.topic = "robot/arm/control" THEN handle_arm_command(m.payload)
    ELSE IF m.topic = "robot/arm/coordinate" THEN handle_arm_coordinate_command(m.payload)
    ELSE IF m.topic = "robot/gripper/control" THEN handle_gripper_command(m.payload)
    ELSE "reject"

on_message(m) ==
    /\ node = "mqtt_manager"
    /\ accepted < MaxTasks
    /\ IF Route(m) = "reject"
         THEN /\ last_event' = [NoEvent EXCEPT !.op = "on_message"]
              /\ UNCHANGED <<task_queue, accepted>>
         ELSE add_task(Route(m), m.payload)
    /\ UNCHANGED <<node, locks, nav_reported, threads, ros_only, now, nav_status, last_nav_status, arm_running_status,
                   last_arm_running_status, current_task, task_paused,
                   task_completion_delay, task_completion_time, dispatch_log,
                   pub_count, last_pub, completed, faulted, dropped, publish_failed>>

-----------------------------------------------------------------------------
(* mqtt_manager.py : the command dispatcher *)

\* cos and sin of a * pi / 2 for an integer a
CosHalfPi(a) == CASE a % 4 = 0 -> 1 [] a % 4 = 2 -> -1 [] OTHER -> 0
SinHalfPi(a) == CASE a % 4 = 1 -> 1 [] a % 4 = 3 -> -1 [] OTHER -> 0

\* rpy2elements, the angles given in units of pi
rpy2elements(roll, pitch, yaw) ==
    LET cy == CosHalfPi(yaw)   sy == SinHalfPi(yaw)
        cp == CosHalfPi(pitch) sp == SinHalfPi(pitch)
        cr == CosHalfPi(roll)  sr == SinHalfPi(roll)
    IN  [x |-> cy * cp * sr - sy * sp * cr,
         y |-> sy * cp * sr + cy * sp * cr,
         z |-> sy * cp * cr - cy * sp * sr,
         w |-> cy * cp * cr + sy * sp * sr]

\* publish_navigation: the PoseStamped handed to pub_nav_goal
publish_navigation(x, y, z, orientation) ==
    [topic |-> "/move_base_simple/goal",
     msg |-> [x |-> x, y |-> y, z |-> z,
              q |-> IF orientation # None /\ IsDict(orientation)
                      THEN [x |-> Get(orientation, "x", 0),
                            y |-> Get(orientation, "y", 0),
                            z |-> Get(orientation, "z", 0),
                            w |-> Get(orientation, "w", 1)]
                      ELSE rpy2elements(0, 0, 0)]]

\* publish_arm_command: the ArmPositionDrive of a command code (thousandths)
ArmPose(cmd) ==
    CASE cmd = 0 -> [x |-> -183396, y |-> 32867, z |-> -100611,
                         rx |-> -7378, ry |-> 89048, rz |-> 0]
      [] cmd = 1 -> [x |-> -92346, y |-> -50122, z |-> -53531,
                         rx |-> 17066, ry |-> 89044, rz |-> 0]
      [] cmd = 2 -> [x |-> -92346, y |-> -50122, z |-> -53531,
                         rx |-> 17066, ry |-> 89044, rz |-> 0]
      [] cmd = 3 -> [x |-> -88396, y |-> 39867, z |-> -100611,
                         rx |-> -7378, ry |-> 89048, rz |-> 0]

\* the messages a publish_* call hands to its publisher: none or one
publish_arm_command(cmd) ==
    IF cmd \in {0, 1, 2, 3}
      THEN << [topic |-> "/Arm_Position_Drive", msg |-> ArmPose(cmd)] >>
      ELSE << >>

publish_arm_coordinate(x, y, z, rx, ry, rz) ==
    [topic |-> "/Arm_Position_Drive",
     msg |-> [x |-> x, y |-> y, z |-> z, rx |-> rx, ry |-> ry, rz |-> rz]]

\* mutant of publish_gripper_command: the command goes to the arm publisher
publish_gripper_command_arm_topic(cmd) ==
    [topic |-> "/Arm_Position_Drive", msg |-> [data |-> cmd]]

publish_gripper_command(cmd) ==
    [topic |-> "/cmdeffector", msg |-> [data |-> cmd]]

\* _execute_task: the messages published for a task, in order
execute_task(task) ==
    LET p == task.payload IN
    IF ~IsDict(p) THEN << >>
    ELSE CASE task.task_type = "navigation" ->
                << publish_navigation(Get(p, "x", 0), Get(p, "y", 0), Get(p, "z", 0),
                                      Get(p, "orientation", None)) >>
           [] task.task_type = "arm_command" ->
                publish_arm_command(Get(p, "command", 0))
           [] task.task_type = "arm_coordinate" ->
                << publish_arm_coordinate(Get(p, "x", 0), Get(p, "y", 0), Get(p, "z", 0),
                                          Get(p, "rx", 0), Get(p, "ry", 0), Get(p, "rz", 0)) >>
           [] task.task_type = "gripper" ->
                << publish_gripper_command(Get(p, "command", 1)) >>
           [] OTHER -> << >>

-----------------------------------------------------------------------------
(* mqtt_manager.py : the completion predicate *)

\* what _is_task_completed returns (done) and whether it called
\* _pause_task_queue on the way (pause)
Verdict(done, pause) == [done |-> done, pause |-> pause]

\* mutants of nav_completed: status 4 completes without pausing; the settle
\* window is not awaited; an unrecognized status counts as completion
nav_completed_override_ok(elapsed_time) ==
    IF elapsed_time < NavSettle THEN Verdict(FALSE, FALSE)
    ELSE IF nav_status = 1 THEN Verdict(TRUE, TRUE)
    ELSE IF nav_status \in {2, 4} THEN Verdict(TRUE, FALSE)
    ELSE Verdict(FALSE, FALSE)

nav_completed_no_settle(elapsed_time) ==
    IF nav_status \in {1, 4} THEN Verdict(TRUE, TRUE)
    ELSE IF nav_status = 2 THEN Verdict(TRUE, FALSE)
    ELSE Verdict(FALSE, FALSE)

nav_completed_unknown_done(elapsed_time) ==
    IF elapsed_time < NavSettle THEN Verdict(FALSE, FALSE)
    ELSE IF nav_status \in {1, 4} THEN Verdict(TRUE, TRUE)
    ELSE IF nav_status = 3 THEN Verdict(FALSE, FALSE)
    ELSE Verdict(TRUE, FALSE)

\* _is_task_completed, the branch of a Navigation task
nav_completed(elapsed_time) ==
    IF elapsed_time < NavSettle THEN Verdict(FALSE, FALSE)
    ELSE IF nav_status = 1 THEN Verdict(TRUE, TRUE)
    ELSE IF nav_status = 4 THEN Verdict(TRUE, TRUE)
    ELSE IF nav_status = 2 THEN Verdict(TRUE, FALSE)
    ELSE IF nav_status = 3 THEN Verdict(FALSE, FALSE)
    ELSE Verdict(FALSE, FALSE)

\* mutants of arm_completed: the arm task reads nav_status as a Navigation
\* task does; the arm task is given up one unit after the settle window
arm_completed_reads_nav(elapsed_time) ==
    IF elapsed_time < ArmSettle THEN Verdict(FALSE, FALSE)
    ELSE IF nav_status \in {1, 4} THEN Verdict(TRUE, TRUE)
    ELSE IF arm_running_status THEN Verdict(FALSE, FALSE)
    ELSE Verdict(TRUE, FALSE)

arm_completed_times_out(elapsed_time) ==
    IF elapsed_time < ArmSettle THEN Verdict(FALSE, FALSE)
    ELSE IF arm_running_status /\ elapsed_time <= ArmSettle THEN Verdict(FALSE, FALSE)
    ELSE Verdict(TRUE, FALSE)

\* _is_task_completed, the branch of an arm task
arm_completed(elapsed_time) ==
    IF elapsed_time < ArmSettle THEN Verdict(FALSE, FALSE)
    ELSE IF arm_running_status THEN Verdict(FALSE, FALSE)
    ELSE Verdict(TRUE, FALSE)

\* mutant of gripper_completed: the gripper waits for the arm to stop as well
gripper_completed_waits_arm(elapsed_time) ==
    IF elapsed_time < GripperDwell THEN Verdict(FALSE, FALSE)
    ELSE IF arm_running_status THEN Verdict(FALSE, FALSE)
    ELSE Verdict(TRUE, FALSE)

\* _is_task_completed, the branch of a Gripper task
gripper_completed(elapsed_time) ==
    IF elapsed_time < GripperDwell THEN Verdict(FALSE, FALSE)
    ELSE Verdict(TRUE, FALSE)

\* _is_task_completed at clock reading t
is_task_completed(task, t) ==
    LET elapsed_time == t - The(task.start_time) IN
    CASE task.task_type = "navigation" -> nav_completed(elapsed_time)
      [] task.task_type \in {"arm_command", "arm_coordinate"} -> arm_completed(elapsed_time)
      [] task.task_type = "gripper" -> gripper_completed(elapsed_time)
      [] OTHER -> Verdict(TRUE, FALSE)

\* mutant of pause_task_queue: the task in flight survives the pause
pause_task_queue_keeps_current ==
    /\ task_paused' = TRUE
    /\ current_task' = current_task
    /\ task_queue' = << >>
    /\ faulted' = faulted
    /\ dropped' = dropped \cup Ids(task_queue)

\* mutant of pause_task_queue: the queued tasks survive the pause
pause_task_queue_keeps_queue ==
    /\ task_paused' = TRUE
    /\ current_task' = None
    /\ task_queue' = task_queue
    /\ faulted' = faulted \cup Ids(current_task)
    /\ dropped' = dropped

\* _pause_task_queue
pause_task_queue ==
    /\ task_paused' = TRUE
    /\ current_task' = None
    /\ task_queue' = << >>
    /\ faulted' = faulted \cup Ids(current_task)
    /\ dropped' = dropped \cup Ids(task_queue)

\* mutant of resume_task_queue: the resume also ends a cooldown
resume_task_queue_ends_cooldown ==
    /\ node = "mqtt_manager"
    /\ task_paused' = FALSE
    /\ task_completion_time' = None
    /\ UNCHANGED <<node, locks, nav_reported, threads, ros_only, now, nav_status, last_nav_status,
                   arm_running_status, last_arm_running_status, task_queue,
                   current_task, task_completion_delay, accepted, dispatch_log,
                   pub_count, last_pub, completed, faulted, dropped, publish_failed>>
    /\ last_event' = [NoEvent EXCEPT !.op = "resume"]

\* resume_task_queue
resume_task_queue ==
    /\ node = "mqtt_manager"
    /\ task_paused' = FALSE
    /\ UNCHANGED <<node, locks, nav_reported, threads, ros_only, now, nav_status, last_nav_status, arm_running_status,
                   last_arm_running_status, task_queue, current_task,
                   task_completion_delay, task_completion_time, accepted,
                   dispatch_log, pub_count, last_pub, completed, faulted, dropped,
                   publish_failed>>
    /\ last_event' = [NoEvent EXCEPT !.op = "resume"]

-----------------------------------------------------------------------------
(* mqtt_manager.py : one iteration of the loop of _task_executor.  The     *)
(* body runs under queue_lock, so it is atomic for add_task.  It reads     *)
(* time.time() up to four times: in _is_task_completed (1), for            *)
(* task_completion_time (2), for the cooldown (3) and for start_time (4);  *)
(* the clock moves on by one unit after reading j, or not at all (j = 4).  *)

Clock(j, i) == IF i > j /\ now < MaxTime THEN now + 1 ELSE now

\* mutant of popleft: the task taken stays in the queue
popleft_keeps(q) == q

\* line 278: the queue deque.popleft() leaves
popleft(q) == Tail(q)

\* mutant of cooling: the cooldown is never awaited
cooling_never(tct, t) == FALSE

\* lines 265-270: a completion time is recorded and the delay has not elapsed
cooling(tct, t) == tct # None /\ t - The(tct) < task_completion_delay

\* mutant of dispatch_next: line 274 is missing, the completion time stays
dispatch_next_keeps_stamp(j, fail, tct, ev, c0) ==
    LET c3 == Clock(j, 3)
        c4 == Clock(j, 4)
        head == task_queue[1]
        msgs == execute_task(head)
    IN  IF cooling(tct, c3)
          THEN \* lines 268-270: rate.sleep() inside the with block
               /\ task_completion_time' = tct
               /\ current_task' = None
               /\ now' = c3
               /\ last_event' = [ev EXCEPT !.sleep = "locked"]
               /\ UNCHANGED <<task_queue, dispatch_log, pub_count, last_pub,
                              publish_failed>>
          ELSE /\ task_completion_time' = tct
               /\ IF Len(task_queue) > 0
                    THEN \* lines 278-281; an exception of the publish call ends
                         \* the iteration at line 285, after start_time was set
                         /\ current_task' = Some([head EXCEPT !.start_time = Some(c4)])
                         /\ task_queue' = popleft(task_queue)
                         /\ dispatch_log' = Append(dispatch_log, head.id)
                         /\ pub_count' = [pub_count EXCEPT ![head.id] = @ + Len(msgs)]
                         /\ last_pub' = IF Len(msgs) > 0
                                          THEN [topic |-> msgs[Len(msgs)].topic,
                                                msg |-> msgs[Len(msgs)].msg,
                                                id |-> head.id]
                                          ELSE last_pub
                         /\ publish_failed' = IF fail /\ Len(msgs) > 0
                                                THEN publish_failed \cup {head.id}
                                                ELSE publish_failed
                         /\ now' = c4
                         /\ last_event' = [ev EXCEPT !.dispatched = head.id,
                                                     !.sleep = "unlocked"]
                    ELSE /\ current_task' = None
                         /\ now' = IF tct # None THEN c3 ELSE c0
                         /\ last_event' = [ev EXCEPT !.sleep = "unlocked"]
                         /\ UNCHANGED <<task_queue, dispatch_log, pub_count, last_pub,
                                        publish_failed>>

\* mutant of dispatch_next: the loop ends the cooldown and never takes a task
dispatch_next_idle(j, fail, tct, ev, c0) ==
    LET c3 == Clock(j, 3) IN
    /\ task_completion_time' = IF cooling(tct, c3) THEN tct ELSE None
    /\ current_task' = None
    /\ now' = IF tct # None THEN c3 ELSE c0
    /\ last_event' = [ev EXCEPT !.sleep = IF cooling(tct, c3) THEN "locked" ELSE "unlocked"]
    /\ UNCHANGED <<task_queue, dispatch_log, pub_count, last_pub, publish_failed>>

\* lines 264-281, entered with no current task: tct is the completion time
\* in force, ev the event so far, c0 the last clock reading made before, and
\* fail says that the rospy publish call of a dispatch raises
dispatch_next(j, fail, tct, ev, c0) ==
    LET c3 == Clock(j, 3)
        c4 == Clock(j, 4)
        head == task_queue[1]
        msgs == execute_task(head)
    IN  IF cooling(tct, c3)
          THEN \* lines 268-270: rate.sleep() inside the with block
               /\ task_completion_time' = tct
               /\ current_task' = None
               /\ now' = c3
               /\ last_event' = [ev EXCEPT !.sleep = "locked"]
               /\ UNCHANGED <<task_queue, dispatch_log, pub_count, last_pub,
                              publish_failed>>
          ELSE /\ task_completion_time' = None
               /\ IF Len(task_queue) > 0
                    THEN \* lines 278-281; an exception of the publish call ends
                         \* the iteration at line 285, after start_time was set
                         /\ current_task' = Some([head EXCEPT !.start_time = Some(c4)])
                         /\ task_queue' = popleft(task_queue)
                         /\ dispatch_log' = Append(dispatch_log, head.id)
                         /\ pub_count' = [pub_count EXCEPT ![head.id] = @ + Len(msgs)]
                         /\ last_pub' = IF Len(msgs) > 0
                                          THEN [topic |-> msgs[Len(msgs)].topic,
                                                msg |-> msgs[Len(msgs)].msg,
                                                id |-> head.id]
                                          ELSE last_pub
                         /\ publish_failed' = IF fail /\ Len(msgs) > 0
                                                THEN publish_failed \cup {head.id}
                                                ELSE publish_failed
                         /\ now' = c4
                         /\ last_event' = [ev EXCEPT !.dispatched = head.id,
                                                     !.sleep = "unlocked"]
                    ELSE /\ current_task' = None
                         /\ now' = IF tct # None THEN c3 ELSE c0
                         /\ last_event' = [ev EXCEPT !.sleep = "unlocked"]
                         /\ UNCHANGED <<task_queue, dispatch_log, pub_count, last_pub,
                                        publish_failed>>

\* mutant of paused_tick: the executor resumes the queue by itself
paused_tick_resumes ==
    /\ last_event' = [NoEvent EXCEPT !.op = "tick", !.check = "paused",
                                     !.sleep = "locked"]
    /\ task_paused' = FALSE
    /\ UNCHANGED <<now, task_queue, current_task, task_completion_time,
                   dispatch_log, pub_count, last_pub, completed, faulted,
                   dropped, publish_failed>>

\* lines 245-247: the iteration of a paused queue
paused_tick ==
    /\ last_event' = [NoEvent EXCEPT !.op = "tick", !.check = "paused",
                                     !.sleep = "locked"]
    /\ UNCHANGED <<now, task_queue, current_task, task_paused,
                   task_completion_time, dispatch_log, pub_count,
                   last_pub, completed, faulted, dropped, publish_failed>>

\* lines 243-287: the with block of one iteration, and where it sleeps
task_executor_body(j, fail) ==
    LET c1 == Clock(j, 1)
        c2 == Clock(j, 2)
        cur == The(current_task)
        v == is_task_completed(cur, c1)
        tick == [NoEvent EXCEPT !.op = "tick"]
        checked == [tick EXCEPT !.id = cur.id, !.task_type = cur.task_type,
                                !.elapsed = c1 - The(cur.start_time)]
    IN
    /\ node = "mqtt_manager"
    /\ IF task_paused
         THEN paused_tick
         ELSE IF current_task # None
           THEN IF v.pause
                  THEN \* lines 350-357, then line 253 raises on current_task = None
                       \* (or, were the task not done, lines 260-262)
                       /\ pause_task_queue
                       /\ now' = c1
                       /\ last_event' = [checked EXCEPT !.check = "fault",
                                                        !.sleep = "unlocked"]
                       /\ UNCHANGED <<task_completion_time, dispatch_log,
                                      pub_count, last_pub, completed, publish_failed>>
                  ELSE IF v.done
                         THEN \* lines 252-258, then on to line 264
                              /\ dispatch_next(j, fail, Some(c2),
                                               [checked EXCEPT !.check = "complete"], c2)
                              /\ completed' = Append(completed, [id |-> cur.id, at |-> c2])
                              /\ UNCHANGED <<task_paused, faulted, dropped>>
                         ELSE \* lines 260-262
                              /\ now' = c1
                              /\ last_event' = [checked EXCEPT !.check = "waiting",
                                                               !.sleep = "locked"]
                              /\ UNCHANGED <<task_queue, current_task, task_paused,
                                             task_completion_time, dispatch_log,
                                             pub_count, last_pub, completed,
                                             faulted, dropped, publish_failed>>
           ELSE /\ dispatch_next(j, fail, task_completion_time, tick, now)
                /\ UNCHANGED <<task_paused, completed, faulted, dropped>>
    /\ nav_reported' = (nav_reported /\ current_task' # None /\ last_event'.dispatched = 0)
    /\ UNCHANGED <<node, ros_only, nav_status, last_nav_status, arm_running_status,
                   last_arm_running_status, task_completion_delay, accepted>>

\* one iteration of the loop, atomic for the other threads
task_executor(j, fail) ==
    /\ task_executor_body(j, fail)
    /\ UNCHANGED <<threads, locks>>

-----------------------------------------------------------------------------
(* The clock.  Only mqtt_manager.py reads it: mqtt2ros.py stamps each task *)
(* with time.time() and never reads the stamp, so its clock stands still.  *)

AdvanceTime ==
    /\ node = "mqtt_manager"
    /\ now < MaxTime
    /\ now' = now + 1
    /\ UNCHANGED <<node, locks, nav_reported, threads, ros_only, nav_status, last_nav_status, arm_running_status,
                   last_arm_running_status, task_queue, current_task, task_paused,
                   task_completion_delay, task_completion_time, accepted,
                   dispatch_log, pub_count, last_pub, completed, faulted, dropped, publish_failed>>
    /\ last_event' = NoEvent

-----------------------------------------------------------------------------
(* The state after NavigationManager.__init__ of mqtt_manager.py.          *)
(* resume_task_queue is called from outside the node.  Nothing in the      *)
(* repository calls set_task_completion_delay, so task_completion_delay    *)
(* keeps the value __init__ gives it.                                      *)

ManagerFields ==
    /\ node = "mqtt_manager"
    /\ now = 0
    /\ nav_status = 0
    /\ last_nav_status = None
    /\ arm_running_status = FALSE
    /\ last_arm_running_status = None
    /\ task_queue = << >>
    /\ current_task = None
    /\ task_paused = FALSE
    /\ task_completion_delay = InitialDelay
    /\ task_completion_time = None
    /\ nav_target = None
    /\ command = None
    /\ send_cmd = None
    /\ waiting_for_end_effector = FALSE
    /\ accepted = 0
    /\ dispatch_log = << >>
    /\ pub_count = [i \in 1..MaxTasks |-> 0]
    /\ last_pub = NoPub
    /\ completed = << >>
    /\ faulted = {}
    /\ dropped = {}
    /\ publish_failed = {}
    /\ queue_lock = "free"
    /\ pending = None
    /\ nav_reported = FALSE
    /\ last_event = NoEvent

\* NavigationManager() has returned: self.lock exists, the executor runs
InitManager ==
    /\ ManagerFields
    /\ lock = "free"
    /\ pc = Constructed

NextManager ==
    \/ \E m \in Messages : on_message(m)
    \/ \E j \in 1..4, fail \in BOOLEAN : task_executor(j, fail)
    \/ \E state \in NavStates : update_nav_status(state)
    \/ \E running_status \in BOOLEAN : update_arm_status(running_status)
    \/ resume_task_queue
    \/ AdvanceTime

SpecManager == InitManager /\ [][NextManager]_vars

\* The executor thread keeps running: the loop of lines 241-287 has no exit
\* but rospy's shutdown, and every path of an iteration ends in rate.sleep().
\* One command of each of three kinds is enough for what a fair loop brings
\* about.
LiveMessages ==
    { [topic |-> "robot/navigation", payload |-> [x |-> 1, y |-> 2, z |-> 0]],
      [topic |-> "robot/arm/control", payload |-> [command |-> 1]],
      [topic |-> "robot/gripper/control", payload |-> [command |-> 2]] }

NextLive ==
    \/ \E m \in LiveMessages : on_message(m)
    \/ \E j \in 1..4, fail \in BOOLEAN : task_executor(j, fail)
    \/ \E state \in NavStates : update_nav_status(state)
    \/ \E running_status \in BOOLEAN : update_arm_status(running_status)
    \/ resume_task_queue
    \/ AdvanceTime

SpecLive ==
    /\ InitManager
    /\ [][NextLive]_vars
    /\ WF_vars(\E j \in 1..4, fail \in BOOLEAN : task_executor(j, fail))

-----------------------------------------------------------------------------
(* mqtt_manager.py : the message thread and the executor thread at         *)
(* queue_lock.  on_message runs up to the with statement of add_task and   *)
(* waits there (pending); add_task runs once the lock is free.  The        *)
(* executor takes the lock for the with block of an iteration and, on the  *)
(* paths that call rate.sleep() inside the block (lines 246, 261, 269),    *)
(* keeps it while it sleeps; it gives the lock back when the sleep ends    *)
(* and takes it again in the next iteration.  threading.RLock hands a      *)
(* released lock to whichever thread asks first.                           *)

\* on_message and the handler, up to the call of add_task
on_message_call(m) ==
    /\ node = "mqtt_manager"
    /\ accepted < MaxTasks
    /\ pending = None
    /\ IF Route(m) = "reject"
         THEN /\ last_event' = [NoEvent EXCEPT !.op = "on_message"]
              /\ UNCHANGED pending
         ELSE /\ pending' = Some([task_type |-> Route(m), payload |-> m.payload])
              /\ last_event' = NoEvent
    /\ UNCHANGED <<node, locks, nav_reported, ros_only, now, nav_status, last_nav_status, arm_running_status,
                   last_arm_running_status, task_queue, current_task, task_paused,
                   task_completion_delay, task_completion_time, accepted, dispatch_log,
                   pub_count, last_pub, completed, faulted, dropped, publish_failed,
                   queue_lock>>

\* add_task, from the with statement on
add_task_locked ==
    /\ node = "mqtt_manager"
    /\ pending # None
    /\ queue_lock = "free"
    /\ add_task(The(pending).task_type, The(pending).payload)
    /\ pending' = None
    /\ UNCHANGED <<node, locks, nav_reported, ros_only, now, nav_status, last_nav_status, arm_running_status,
                   last_arm_running_status, current_task, task_paused,
                   task_completion_delay, task_completion_time, dispatch_log,
                   pub_count, last_pub, completed, faulted, dropped, publish_failed,
                   queue_lock>>

\* one iteration of the loop up to its rate.sleep()
executor_iteration(j, fail) ==
    /\ queue_lock = "free"
    /\ task_executor_body(j, fail)
    /\ queue_lock' = IF last_event'.sleep = "locked" THEN "executor" ELSE "free"
    /\ UNCHANGED <<pending, locks>>

\* rate.sleep() returns inside the with block, and continue leaves the block
executor_wakes ==
    /\ node = "mqtt_manager"
    /\ queue_lock = "executor"
    /\ queue_lock' = "free"
    /\ last_event' = NoEvent
    /\ UNCHANGED <<node, locks, nav_reported, ros_only, now, nav_status, last_nav_status, arm_running_status,
                   last_arm_running_status, task_queue, current_task, task_paused,
                   task_completion_delay, task_completion_time, accepted, dispatch_log,
                   pub_count, last_pub, completed, faulted, dropped, publish_failed,
                   pending>>

\* resume_task_queue takes queue_lock as well
resume_task_queue_locked ==
    /\ queue_lock = "free"
    /\ resume_task_queue

NextThreads ==
    \/ \E m \in Messages : on_message_call(m)
    \/ add_task_locked
    \/ \E j \in 1..4, fail \in BOOLEAN : executor_iteration(j, fail)
    \/ executor_wakes
    \/ \E state \in NavStates : update_nav_status(state)
    \/ \E running_status \in BOOLEAN : update_arm_status(running_status)
    \/ resume_task_queue_locked
    \/ AdvanceTime

\* both threads keep running: a step a thread can take from some point on
\* without interruption, it takes
SpecThreads ==
    /\ InitManager
    /\ [][NextThreads]_vars
    /\ WF_vars(add_task_locked)
    /\ WF_vars(executor_wakes)
    /\ WF_vars(\E j \in 1..4, fail \in BOOLEAN : executor_iteration(j, fail))

-----------------------------------------------------------------------------
(* mqtt2ros.py.  Every method runs under the re-entrant self.lock, and the *)
(* methods call each other (execute_next_task -> execute_gripper_task ->   *)
(* complete_current_task -> execute_next_task ...), so each is a function  *)
(* on the record R of the fields it reads and writes: q = task_queue,      *)
(* cur = current_task, waiting = waiting_for_end_effector, arm_running =   *)
(* arm_running_status; log, pubs and done collect what the call chain      *)
(* dispatched, published and completed.  Angles are in units of pi.        *)

RosMessages ==
    [topic : {"robot/navigation/gooffice"},
     payload : {[x |-> 1, y |-> 2, yaw |-> 1], [x |-> 3, y |-> 1], NotDict}]
    \cup [topic : {"robot/arm/control"}, payload : {[command |-> 1], [command |-> 7]}]
    \cup [topic : {"robot/gripper/control"},
          payload : {[command |-> 0], [command |-> 1], [command |-> 2]}]
    \cup [topic : {"robot/navigation_status"}, payload : {NotDict}]

RosR ==
    [q |-> task_queue, cur |-> current_task, nav_target |-> nav_target,
     command |-> command, send_cmd |-> send_cmd,
     waiting |-> waiting_for_end_effector, nav_status |-> nav_status,
     arm_running |-> arm_running_status,
     log |-> << >>, pubs |-> << >>, done |-> << >>]

\* a rospy publish call, made while R.cur is the current task
ros_publish(R, topic, msg) ==
    [R EXCEPT !.pubs = Append(@, [topic |-> topic, msg |-> msg,
                                  id |-> IF R.cur = None THEN 0 ELSE The(R.cur).id])]

\* publish_goal
ros_publish_goal(R) ==
    IF R.nav_target = None
      THEN R
      ELSE LET t == The(R.nav_target) IN
           [ros_publish(R, "/move_base_simple/goal",
                        [x |-> t.x, y |-> t.y, z |-> 0, q |-> rpy2elements(0, 0, t.yaw)])
              EXCEPT !.nav_target = None]

\* execute_command
ros_execute_command(R) ==
    IF R.arm_running
      THEN R
      ELSE LET R1 == IF R.send_cmd # None /\ The(R.send_cmd) \in {1, 2}
                       THEN [R EXCEPT !.waiting = TRUE] ELSE R
           IN  IF The(R.command) \in {0, 1, 2, 3}
                 THEN [ros_publish(R1, "/arm_drive", ArmPose(The(R.command)))
                         EXCEPT !.command = None]
                 ELSE [R1 EXCEPT !.command = None]

\* check_and_execute
ros_check_and_execute(R) ==
    IF R.nav_status = 2
      THEN IF R.nav_target # None THEN ros_publish_goal(R)
           ELSE IF R.command # None THEN ros_execute_command(R)
           ELSE R
      ELSE R

\* set_arm_command
ros_set_arm_command(R, cmd) ==
    ros_check_and_execute([R EXCEPT !.command = Some(cmd), !.send_cmd = Some(cmd),
                                    !.nav_target = None])

\* execute_navigation_task
ros_execute_navigation_task(R, task_data) ==
    ros_publish_goal(
        [R EXCEPT !.nav_target =
            Some([x |-> Get(task_data, "x", Get(task_data, "lon", 0)),
                  y |-> Get(task_data, "y", Get(task_data, "lat", 0)),
                  yaw |-> Get(task_data, "yaw", Get(task_data, "theta", 0))])])

\* execute_arm_task
ros_execute_arm_task(R, task_data) ==
    ros_set_arm_command(R, Get(task_data, "command", 0))

RECURSIVE ros_execute_next_task(_), ros_complete_current_task(_)

\* execute_gripper_task
ros_execute_gripper_task(R, task_data) ==
    ros_complete_current_task(
        ros_publish(R, "/cmdeffector",
                    [data |-> Get(task_data, "command", Get(task_data, "action", 0))]))

\* execute_next_task
ros_execute_next_task(R) ==
    IF R.q = << >> THEN R
    ELSE IF R.cur # None THEN R
    ELSE LET t == Head(R.q)
             R1 == [R EXCEPT !.cur = Some(t), !.q = Tail(R.q),
                             !.log = Append(@, t.id)]
         IN  CASE t.type = "navigation" -> ros_execute_navigation_task(R1, t.data)
               [] t.type = "arm" -> ros_execute_arm_task(R1, t.data)
               [] t.type = "gripper" -> ros_execute_gripper_task(R1, t.data)
               [] OTHER -> R1

\* complete_current_task
ros_complete_current_task(R) ==
    ros_execute_next_task(
        IF R.cur # None
          THEN [R EXCEPT !.cur = None, !.done = Append(@, The(R.cur).id)]
          ELSE R)

\* mutant of ros_add_task: the next task is started without regard to the
\* task that is current
ros_add_task_unchecked(R, type, data) ==
    LET task == [id |-> accepted + 1, type |-> type, data |-> data, timestamp |-> now]
    IN  ros_execute_next_task([R EXCEPT !.q = Append(@, task), !.cur = None])

\* add_task
ros_add_task(R, type, data) ==
    LET task == [id |-> accepted + 1, type |-> type, data |-> data, timestamp |-> now]
        R1 == [R EXCEPT !.q = Append(@, task)]
    IN  IF R1.cur = None THEN ros_execute_next_task(R1) ELSE R1

\* the handlers: the task they enqueue, or "reject"
ros_handle_navigation(payload) ==
    IF IsDict(payload)
      THEN [type |-> "navigation",
            data |-> [x |-> Get(payload, "x", 0), y |-> Get(payload, "y", 0),
                      yaw |-> Get(payload, "yaw", 0)]]
      ELSE [type |-> "reject", data |-> NotDict]

ros_handle_arm_command(payload) ==
    IF IsDict(payload) /\ Get(payload, "command", 0) \in {0, 1, 2, 3}
      THEN [type |-> "arm", data |-> [command |-> Get(payload, "command", 0)]]
      ELSE [type |-> "reject", data |-> NotDict]

ros_handle_gripper_command(payload) ==
    IF IsDict(payload) /\ Get(payload, "command", 0) \in {0, 1}
      THEN [type |-> "gripper", data |-> [command |-> Get(payload, "command", 0)]]
      ELSE [type |-> "reject", data |-> NotDict]

\* on_message: which handler the topic selects
RosRoute(m) ==
    IF m.topic \in {"robot/navigation/gooffice", "robot/navigation/gorestroom",
                    "robot/navigation/gocorridor"}
      THEN ros_handle_navigation(m.payload)
    ELSE IF m.topic = "robot/arm/control" THEN ros_handle_arm_command(m.payload)
    ELSE IF m.topic = "robot/gripper/control" THEN ros_handle_gripper_command(m.payload)
    ELSE [type |-> "reject", data |-> NotDict]

\* the state a call chain that ended in R leaves, ev the event to record
RosCommitEvent(R, ev) ==
    /\ task_queue' = R.q
    /\ current_task' = R.cur
    /\ nav_target' = R.nav_target
    /\ command' = R.command
    /\ send_cmd' = R.send_cmd
    /\ waiting_for_end_effector' = R.waiting
    /\ nav_status' = R.nav_status
    /\ arm_running_status' = R.arm_running
    /\ dispatch_log' = dispatch_log \o R.log
    /\ completed' = completed \o [i \in 1..Len(R.done) |-> [id |-> R.done[i], at |-> now]]
    /\ pub_count' = [i \in 1..MaxTasks |->
                       pub_count[i] + Cardinality({k \in 1..Len(R.pubs) : R.pubs[k].id = i})]
    /\ last_pub' = IF R.pubs = << >> THEN last_pub ELSE R.pubs[Len(R.pubs)]
    /\ last_event' = ev
    /\ UNCHANGED <<node, locks, nav_reported, now, manager_only, threads, faulted, dropped, publish_failed>>

RosCommit(R) == RosCommitEvent(R, NoEvent)

ros_on_message(m) ==
    /\ node = "mqtt2ros"
    /\ accepted < MaxTasks
    /\ LET h == RosRoute(m) IN
       IF h.type = "reject"
         THEN /\ RosCommit(RosR)
              /\ UNCHANGED <<accepted, last_nav_status, last_arm_running_status>>
         ELSE /\ RosCommit(ros_add_task(RosR, h.type, h.data))
              /\ accepted' = accepted + 1
              /\ UNCHANGED <<last_nav_status, last_arm_running_status>>

\* update_nav_status
ros_update_nav_status(state) ==
    LET ev == [NoEvent EXCEPT !.op = "update_nav_status", !.state = state] IN
    /\ node = "mqtt2ros"
    /\ IF Some(state) # last_nav_status
         THEN LET R1 == [RosR EXCEPT !.nav_status = state] IN
              /\ last_nav_status' = Some(state)
              /\ IF state = 2 /\ R1.cur # None /\ The(R1.cur).type = "navigation"
                   THEN RosCommitEvent(ros_complete_current_task(R1), ev)
                   ELSE RosCommitEvent(ros_check_and_execute(R1), ev)
         ELSE /\ RosCommitEvent(RosR, ev)
              /\ UNCHANGED last_nav_status
    /\ UNCHANGED <<accepted, last_arm_running_status>>

\* update_arm_status.  publish(Int32(None)) raises in rospy's serialisation;
\* the callback then ends there, after the assignment of arm_running_status
ros_update_arm_status(running_status) ==
    LET ev == [NoEvent EXCEPT !.op = "update_arm_status", !.running = running_status] IN
    /\ node = "mqtt2ros"
    /\ IF Some(running_status) # last_arm_running_status
         THEN LET R1 == [RosR EXCEPT !.arm_running = running_status] IN
              IF last_arm_running_status = Some(TRUE) /\ running_status = FALSE
                THEN IF R1.send_cmd = None
                       THEN /\ RosCommitEvent(R1, ev)
                            /\ UNCHANGED last_arm_running_status
                       ELSE LET R2 == [ros_publish(R1, "/cmdeffector",
                                                   [data |-> The(R1.send_cmd)])
                                         EXCEPT !.send_cmd = None]
                            IN  /\ IF R2.cur # None /\ The(R2.cur).type = "arm"
                                     THEN RosCommitEvent(ros_complete_current_task(R2), ev)
                                     ELSE RosCommitEvent(R2, ev)
                                /\ last_arm_running_status' = Some(running_status)
                ELSE /\ RosCommitEvent(R1, ev)
                     /\ last_arm_running_status' = Some(running_status)
         ELSE /\ RosCommitEvent(RosR, ev)
              /\ UNCHANGED last_arm_running_status
    /\ UNCHANGED <<accepted, last_nav_status>>

\* handle_end_effector
ros_handle_end_effector(data) ==
    /\ node = "mqtt2ros"
    /\ IF waiting_for_end_effector /\ data /\ command = None
         THEN RosCommit([ros_set_arm_command(RosR, 3) EXCEPT !.waiting = FALSE])
         ELSE RosCommit(RosR)
    /\ UNCHANGED <<accepted, last_nav_status, last_arm_running_status>>

\* the state after NavigationManager.__init__ of mqtt2ros.py
RosFields ==
    /\ node = "mqtt2ros"
    /\ now = 0
    /\ nav_status = 0
    /\ last_nav_status = None
    /\ arm_running_status = FALSE
    /\ last_arm_running_status = Some(TRUE)
    /\ task_queue = << >>
    /\ current_task = None
    /\ task_paused = FALSE
    /\ task_completion_delay = 0
    /\ task_completion_time = None
    /\ nav_target = None
    /\ command = None
    /\ send_cmd = Some(99)
    /\ waiting_for_end_effector = FALSE
    /\ accepted = 0
    /\ dispatch_log = << >>
    /\ pub_count = [i \in 1..MaxTasks |-> 0]
    /\ last_pub = NoPub
    /\ completed = << >>
    /\ faulted = {}
    /\ dropped = {}
    /\ publish_failed = {}
    /\ queue_lock = "free"
    /\ pending = None
    /\ nav_reported = FALSE
    /\ last_event = NoEvent

\* NavigationManager() has returned: self.lock exists; mqtt2ros.py has no
\* executor thread
InitRos ==
    /\ RosFields
    /\ lock = "free"
    /\ pc = [Constructed EXCEPT !.executor = "not_started"]

NextRos ==
    \/ \E m \in RosMessages : ros_on_message(m)
    \/ \E state \in NavStates : ros_update_nav_status(state)
    \/ \E running_status \in BOOLEAN : ros_update_arm_status(running_status)
    \/ \E data \in BOOLEAN : ros_handle_end_effector(data)

SpecRos == InitRos /\ [][NextRos]_vars

-----------------------------------------------------------------------------
(* Either receiver *)

Init == InitManager \/ InitRos

Next == NextManager \/ NextRos

Spec == Init /\ [][Next]_vars

-----------------------------------------------------------------------------
(* The construction of NavigationManager and the two mutexes.  __init__    *)
(* assigns the fields, calls init_ros(), which registers the status        *)
(* callbacks, then creates self.lock, then (mqtt_manager.py) starts the    *)
(* executor thread; rospy delivers each subscription on a thread of its    *)
(* own from the moment it is registered.  In mqtt_manager.py the executor  *)
(* takes queue_lock for the with block of an iteration and, inside it,     *)
(* self.lock to read a status field; a status callback takes self.lock.    *)
(* In mqtt2ros.py every method runs under self.lock from end to end.       *)

\* everything but the locks, the positions of the threads and last_event
data == <<node, ros_only, manager_only, now, nav_status, last_nav_status,
          arm_running_status, last_arm_running_status, task_queue, current_task,
          accepted, dispatch_log, pub_count, last_pub, completed, faulted,
          dropped, publish_failed, nav_reported, pending>>

\* the fields are assigned, init_ros() has not been called yet
InitLocks ==
    /\ (ManagerFields \/ RosFields)
    /\ lock = "unset"
    /\ pc = [main |-> "init_ros", executor |-> "not_started", nav |-> None, arm |-> None]

\* self.init_ros(): the publishers and the subscriptions
init_ros ==
    /\ pc.main = "init_ros"
    /\ pc' = [pc EXCEPT !.main = "lock"]
    /\ last_event' = NoEvent
    /\ UNCHANGED <<data, queue_lock, lock>>

\* self.lock = threading.RLock()
create_lock ==
    /\ pc.main = "lock"
    /\ lock' = "free"
    /\ pc' = [pc EXCEPT !.main = IF node = "mqtt_manager" THEN "thread" ELSE "done"]
    /\ last_event' = NoEvent
    /\ UNCHANGED <<data, queue_lock>>

\* self.executor_thread.start(), and __init__ returns
start_executor_thread ==
    /\ node = "mqtt_manager"
    /\ pc.main = "thread"
    /\ pc' = [pc EXCEPT !.main = "done", !.executor = "loop"]
    /\ last_event' = NoEvent
    /\ UNCHANGED <<data, queue_lock, lock>>

\* the callbacks init_ros subscribes in each node
Callbacks ==
    IF node = "mqtt_manager"
      THEN {"update_nav_status", "update_arm_status"}
      ELSE {"update_nav_status", "update_arm_status", "handle_end_effector"}

\* a callback delivered before self.lock exists: "with self.lock" raises
\* AttributeError, rospy logs it, and the report is lost
callback_raises(op) ==
    /\ pc.main = "lock"
    /\ lock = "unset"
    /\ last_event' = [NoEvent EXCEPT !.op = op, !.ret = "AttributeError"]
    /\ UNCHANGED <<data, queue_lock, lock, pc>>

\* update_nav_status of mqtt_manager.py: line 99, then lines 100-105
update_nav_status_enters(state) ==
    /\ node = "mqtt_manager"
    /\ lock = "free"
    /\ pc.nav = None
    /\ lock' = "nav"
    /\ pc' = [pc EXCEPT !.nav = Some(state)]
    /\ last_event' = NoEvent
    /\ UNCHANGED <<data, queue_lock>>

update_nav_status_returns ==
    /\ lock = "nav"
    /\ update_nav_status_locked(The(pc.nav))
    /\ lock' = "free"
    /\ pc' = [pc EXCEPT !.nav = None]

\* update_arm_status of mqtt_manager.py: line 90, then lines 91-95
update_arm_status_enters(running_status) ==
    /\ node = "mqtt_manager"
    /\ lock = "free"
    /\ pc.arm = None
    /\ lock' = "arm"
    /\ pc' = [pc EXCEPT !.arm = Some(running_status)]
    /\ last_event' = NoEvent
    /\ UNCHANGED <<data, queue_lock>>

update_arm_status_returns ==
    /\ lock = "arm"
    /\ update_arm_status_locked(The(pc.arm))
    /\ lock' = "free"
    /\ pc' = [pc EXCEPT !.arm = None]

\* line 243: the executor enters the with block of an iteration
executor_enters ==
    /\ node = "mqtt_manager"
    /\ pc.executor = "loop"
    /\ queue_lock = "free"
    /\ queue_lock' = "executor"
    /\ pc' = [pc EXCEPT !.executor = "block"]
    /\ last_event' = NoEvent
    /\ UNCHANGED <<data, lock>>

\* the iteration reaches "with self.lock" of _is_task_completed (lines 347,
\* 373): the queue is not paused, a Navigation or arm task is current and its
\* settle window is over
NeedsStatus ==
    /\ ~task_paused
    /\ current_task # None
    /\ LET t == The(current_task) IN
       \/ t.task_type = "navigation" /\ now - The(t.start_time) >= NavSettle
       \/ t.task_type \in {"arm_command", "arm_coordinate"}
            /\ now - The(t.start_time) >= ArmSettle

\* lines 347, 373: the executor takes self.lock inside queue_lock
executor_locks_status ==
    /\ pc.executor = "block"
    /\ NeedsStatus
    /\ lock = "free"
    /\ lock' = "executor"
    /\ pc' = [pc EXCEPT !.executor = "status"]
    /\ last_event' = NoEvent
    /\ UNCHANGED <<data, queue_lock>>

\* the rest of the iteration: the status is read and self.lock given back
\* (lines 348-349, 374), then the with block runs to its end or to the
\* rate.sleep() inside it
executor_finishes(j, fail) ==
    /\ pc.executor = "status" \/ (pc.executor = "block" /\ ~NeedsStatus)
    /\ task_executor_body(j, fail)
    /\ lock' = IF pc.executor = "status" THEN "free" ELSE lock
    /\ pc' = [pc EXCEPT !.executor = IF last_event'.sleep = "locked" THEN "sleep" ELSE "loop"]
    /\ queue_lock' = IF last_event'.sleep = "locked" THEN "executor" ELSE "free"
    /\ UNCHANGED pending

\* rate.sleep() returns inside the with block, and continue leaves the block
executor_leaves ==
    /\ pc.executor = "sleep"
    /\ queue_lock' = "free"
    /\ pc' = [pc EXCEPT !.executor = "loop"]
    /\ last_event' = NoEvent
    /\ UNCHANGED <<data, lock>>

\* the MQTT thread is started after NavigationManager() has returned
\* (mqtt_manager.py lines 643-649, mqtt2ros.py lines 498-504)
NextLocks ==
    \/ init_ros
    \/ create_lock
    \/ start_executor_thread
    \/ \E op \in Callbacks : callback_raises(op)
    \/ \E state \in NavStates : update_nav_status_enters(state)
    \/ update_nav_status_returns
    \/ \E running_status \in BOOLEAN : update_arm_status_enters(running_status)
    \/ update_arm_status_returns
    \/ executor_enters
    \/ executor_locks_status
    \/ \E j \in 1..4, fail \in BOOLEAN : executor_finishes(j, fail)
    \/ executor_leaves
    \/ \E m \in LiveMessages : pc.main = "done" /\ queue_lock = "free" /\ on_message(m)
    \/ pc.main = "done" /\ resume_task_queue_locked
    \/ AdvanceTime
    \/ \E m \in RosMessages : pc.main = "done" /\ ros_on_message(m)
    \/ \E state \in NavStates : pc.main = "done" /\ ros_update_nav_status(state)
    \/ \E running_status \in BOOLEAN : pc.main = "done" /\ ros_update_arm_status(running_status)
    \/ \E d \in BOOLEAN : pc.main = "done" /\ ros_handle_end_effector(d)

SpecLocks == InitLocks /\ [][NextLocks]_vars

-----------------------------------------------------------------------------
(* Properties *)

Dispatched == {dispatch_log[i] : i \in 1..Len(dispatch_log)}
CompletedIds == {completed[i].id : i \in 1..Len(completed)}
Ended == CompletedIds \cup faulted
LastDispatched == dispatch_log[Len(dispatch_log)]

C2_OneCurrent ==
    /\ Len(current_task) <= 1
    /\ \A i \in 1..(Len(dispatch_log) - 1) : dispatch_log[i] \in Ended
    /\ current_task # None =>
          /\ Len(dispatch_log) > 0
          /\ The(current_task).id = LastDispatched
          /\ LastDispatched \notin Ended
    /\ Ids(task_queue) \cap Dispatched = {}

\* mqtt2ros holds a current task with another task waiting behind it
C2_Witness ==
    node = "mqtt2ros" /\ current_task # None /\ Len(task_queue) > 0

\* C3: an add_task call made while task_paused is true returns False, creates
\* no task and leaves the queue as it was (empty).
C3_PausedRejects ==
    [][(task_paused /\ last_event'.op = "add_task")
         => /\ last_event'.ret = "False"
            /\ task_queue' = task_queue
            /\ task_queue' = << >>
            /\ accepted' = accepted]_vars

\* add_task has just returned False to a paused queue
C3_Witness ==
    task_paused /\ last_event.op = "add_task" /\ last_event.ret = "False"
    /\ task_queue = << >>

\* C4: right after _pause_task_queue the queue is paused, there is no current
\* task and the queue is empty, and a task a drain discarded is never
\* dispatched, queued or current afterwards.
C4_PauseAndDrain ==
    /\ last_event.check = "fault" =>
          task_paused /\ current_task = None /\ task_queue = << >>
    /\ dropped \cap Dispatched = {}
    /\ dropped \cap (Ids(task_queue) \cup Ids(current_task)) = {}

\* a drain has just discarded a queued task together with the current one
C4_Witness ==
    last_event.check = "fault" /\ dropped # {} /\ faulted # {}

\* C5: a tick that checks a Navigation task with the settle window elapsed
\* and nav_status 1 or 4 ends the task, pauses the queue and discards the
\* queued tasks.
C5_FaultEscalates ==
    (/\ last_event.op = "tick"
     /\ last_event.task_type = "navigation"
     /\ last_event.elapsed >= NavSettle
     /\ nav_status \in {1, 4})
    => /\ last_event.check = "fault"
       /\ task_paused
       /\ current_task = None
       /\ task_queue = << >>
       /\ last_event.id \in faulted

\* the override status 4 has just ended a Navigation task and dropped a queued one
C5_Witness ==
    /\ last_event.check = "fault"
    /\ nav_status = 4
    /\ dropped # {}
    /\ task_paused

\* C6: a tick that checks a Navigation task less than 2.0 s after its
\* dispatch reports it not complete and does not pause, whatever nav_status.
C6_SettleWindow ==
    (/\ last_event.op = "tick"
     /\ last_event.task_type = "navigation"
     /\ last_event.elapsed < NavSettle)
    => /\ last_event.check = "waiting"
       /\ ~task_paused
       /\ current_task # None
       /\ The(current_task).id = last_event.id

\* a tick inside the settle window has left a Navigation task current although
\* nav_status is goal-reached
C6_Witness ==
    /\ last_event.op = "tick"
    /\ last_event.task_type = "navigation"
    /\ last_event.elapsed < NavSettle
    /\ last_event.elapsed > 0
    /\ nav_status = 2

\* C7: a tick that checks a Gripper task reports it complete exactly when the
\* elapsed time has reached the dwell time, and never pauses, whatever the
\* status fields hold.
C7_GripperDwell ==
    (last_event.op = "tick" /\ last_event.task_type = "gripper")
    => /\ (last_event.check = "complete") <=> (last_event.elapsed >= GripperDwell)
       /\ (last_event.check = "waiting") <=> (last_event.elapsed < GripperDwell)
       /\ ~task_paused

\* a Gripper task has just completed at the dwell time while navigation
\* reports a fault and the arm reports busy
C7_Witness ==
    /\ last_event.task_type = "gripper"
    /\ last_event.check = "complete"
    /\ last_event.elapsed = GripperDwell
    /\ nav_status = 1
    /\ arm_running_status

\* C8: when a tick dispatches a task and the task dispatched before it
\* completed normally, the new start time is at least that completion time
\* plus task_completion_delay; and the earlier task had ended.
C8_Cooldown ==
    (last_event.dispatched # 0 /\ Len(dispatch_log) >= 2)
    => LET prev == dispatch_log[Len(dispatch_log) - 1] IN
       /\ prev \in Ended
       /\ \A i \in 1..Len(completed) :
            completed[i].id = prev =>
               The(The(current_task).start_time)
                  >= completed[i].at + task_completion_delay

\* a second task has just been dispatched after the first one completed
C8_Witness ==
    /\ last_event.dispatched = 2
    /\ completed # << >>
    /\ completed[1].id = 1
    /\ Len(dispatch_log) = 2

\* the channel of each task kind
ChannelOf(task_type) ==
    CASE task_type = "navigation" -> "/move_base_simple/goal"
      [] task_type \in {"arm_command", "arm_coordinate"} -> "/Arm_Position_Drive"
      [] task_type = "gripper" -> "/cmdeffector"

\* the message carries the fields of the payload
Carries(task_type, p, msg) ==
    CASE task_type = "navigation" ->
           /\ msg.x = p.x /\ msg.y = p.y /\ msg.z = p.z
           /\ IF "orientation" \in DOMAIN p
                THEN msg.q.z = p.orientation.z /\ msg.q.w = p.orientation.w
                     /\ msg.q.x = 0 /\ msg.q.y = 0
                ELSE msg.q = [x |-> 0, y |-> 0, z |-> 0, w |-> 1]
      [] task_type = "arm_command" -> msg = ArmPose(p.command)
      [] task_type = "arm_coordinate" -> msg = p
      [] task_type = "gripper" -> msg.data = p.command

\* C9: every dispatched task has caused exactly one publish call and no other
\* task any, and the message a dispatch publishes goes to the channel of the
\* task's kind and carries the fields of its payload.
C9_OnePublish ==
    node = "mqtt_manager" =>
      /\ \A id \in 1..MaxTasks :
            pub_count[id] = IF id \in Dispatched THEN 1 ELSE 0
      /\ last_event.dispatched # 0 =>
            LET t == The(current_task) IN
            /\ last_pub.id = t.id
            /\ last_pub.topic = ChannelOf(t.task_type)
            /\ Carries(t.task_type, t.payload, last_pub.msg)

\* the second dispatched task, a Gripper, has just been published
C9_Witness ==
    /\ node = "mqtt_manager"
    /\ last_event.dispatched = 2
    /\ last_pub.topic = "/cmdeffector"
    /\ pub_count[1] = 1 /\ pub_count[2] = 1

\* C10: a tick that checks a Navigation task while nav_status holds a value
\* outside 1..4 reports it not complete and does not pause.
C10_UnknownStatus ==
    (/\ last_event.op = "tick"
     /\ last_event.task_type = "navigation"
     /\ nav_status \notin {1, 2, 3, 4})
    => /\ last_event.check = "waiting"
       /\ ~task_paused
       /\ current_task # None
       /\ The(current_task).id = last_event.id

\* after the settle window a tick has left a Navigation task current on the
\* initial status 0, no status message having arrived
C10_Witness ==
    /\ last_event.op = "tick"
    /\ last_event.task_type = "navigation"
    /\ last_event.elapsed >= NavSettle
    /\ nav_status = 0
    /\ last_nav_status = None

ArmTypes == {"arm_command", "arm_coordinate"}

\* C11: a tick that checks an ArmPoseCommand or ArmCoordinate task reports it
\* complete exactly when at least 2.0 s have elapsed since its dispatch and
\* arm_running_status is false, whatever nav_status holds, and never pauses
\* the queue.
C11_ArmPredicate ==
    (last_event.op = "tick" /\ last_event.task_type \in ArmTypes)
    => /\ (last_event.check = "complete")
            <=> (last_event.elapsed >= ArmSettle /\ ~arm_running_status)
       /\ (last_event.check = "waiting")
            <=> (last_event.elapsed < ArmSettle \/ arm_running_status)
       /\ ~task_paused
       /\ last_event.id \notin faulted

\* an ArmCoordinate task has just completed while navigation reports a fault
C11_Witness ==
    /\ last_event.task_type = "arm_coordinate"
    /\ last_event.check = "complete"
    /\ last_event.elapsed >= ArmSettle
    /\ nav_status = 1
    /\ ~arm_running_status

\* the status the current task waits for is withheld
Wedged ==
    /\ current_task # None
    /\ \/ The(current_task).task_type \in ArmTypes /\ arm_running_status
       \/ The(current_task).task_type = "navigation" /\ nav_status \notin {1, 2, 4}

\* C12: no step taken while arm_running_status is true for a current arm task,
\* or while nav_status is 3 or unrecognized for a current Navigation task, ends
\* the task or dispatches another, however long the task has been current: as
\* long as the status stays, the task stays current and the queue behind it
\* is not served.
C12_NoTimeout ==
    [][Wedged => /\ current_task' = current_task
                 /\ dispatch_log' = dispatch_log
                 /\ completed' = completed
                 /\ Len(task_queue') >= Len(task_queue)]_vars

\* an arm task is still current more than one unit after its settle window,
\* the arm reports busy, and a task waits behind it
C12_Witness ==
    /\ Wedged
    /\ The(current_task).task_type \in ArmTypes
    /\ last_event.check = "waiting"
    /\ last_event.elapsed > ArmSettle
    /\ task_queue # << >>

\* C13: an executor tick made while task_paused is true dequeues nothing,
\* publishes nothing, leaves the queue, the current task and
\* task_completion_time as they were, and leaves task_paused true.
C13_PausedTick ==
    [][(task_paused /\ last_event'.op = "tick")
         => /\ task_queue' = task_queue
            /\ current_task' = current_task
            /\ task_completion_time' = task_completion_time
            /\ dispatch_log' = dispatch_log
            /\ pub_count' = pub_count
            /\ last_pub' = last_pub
            /\ completed' = completed
            /\ last_event'.dispatched = 0
            /\ task_paused']_vars

\* a tick has just skipped a queue that a fault paused
C13_Witness ==
    /\ task_paused
    /\ last_event.op = "tick"
    /\ last_event.check = "paused"
    /\ faulted # {}

\* C14: resume_task_queue sets task_paused to false and leaves the queue, the
\* current task and task_completion_time as they were, so it restores no
\* task a drain discarded; an add_task call made while task_paused is false
\* is accepted and appends its task.
C14_Resume ==
    [][/\ last_event'.op = "resume"
          => /\ ~task_paused'
             /\ task_queue' = task_queue
             /\ current_task' = current_task
             /\ task_completion_time' = task_completion_time
             /\ dropped' = dropped /\ faulted' = faulted
             /\ (dropped \cup faulted) \cap (Ids(task_queue') \cup Ids(current_task')) = {}
       /\ (~task_paused /\ last_event'.op = "add_task")
          => /\ last_event'.ret = "True"
             /\ Len(task_queue') = Len(task_queue) + 1
             /\ task_queue'[Len(task_queue')].id = last_event'.id
             /\ accepted' = accepted + 1]_vars

\* after a fault paused the queue and a resume cleared the pause, add_task has
\* just accepted a task
C14_Witness ==
    /\ faulted # {}
    /\ ~task_paused
    /\ last_event.op = "add_task"
    /\ last_event.ret = "True"
    /\ Len(task_queue) = 1

\* a command the claim calls malformed
Malformed(m) ==
    \/ ~IsDict(m.payload)
    \/ /\ m.topic = "robot/arm/control"
       /\ "command" \in DOMAIN m.payload
       /\ m.payload.command \notin {0, 1, 2, 3}
    \/ /\ m.topic = "robot/gripper/control"
       /\ "command" \in DOMAIN m.payload
       /\ m.payload.command \notin {1, 2}

\* C15: the handling of a malformed command (payload not a dict, arm command
\* code outside {0,1,2,3}, gripper command code outside {1,2}) creates no
\* task, leaves the queue, the current task and task_paused as they were and
\* publishes nothing.
C15_MalformedRejected ==
    [][\A m \in Messages :
         (Malformed(m) /\ on_message(m))
           => /\ task_queue' = task_queue
              /\ current_task' = current_task
              /\ task_paused' = task_paused
              /\ accepted' = accepted
              /\ dispatch_log' = dispatch_log
              /\ pub_count' = pub_count
              /\ last_pub' = last_pub
              /\ last_event'.op = "on_message"]_vars

\* a command has just been rejected while a task is current
C15_Witness ==
    /\ last_event.op = "on_message"
    /\ current_task # None
    /\ pub_count[1] = 1

\* C16: in both nodes, after each update_nav_status(v) the stored nav_status
\* equals v, and after each update_arm_status(v) the stored
\* arm_running_status equals v, the very first report included.
C16_TrackerFollowsFeed ==
    /\ last_event.op = "update_nav_status" => nav_status = last_event.state
    /\ last_event.op = "update_arm_status" => arm_running_status = last_event.running

\* the number of places an accepted task is in: queued, current, completed,
\* or dropped by a drain (from the queue, or as the current task)
Places(id) ==
    Cardinality({i \in 1..Len(task_queue) : task_queue[i].id = id})
    + (IF id \in Ids(current_task) THEN 1 ELSE 0)
    + Cardinality({i \in 1..Len(completed) : completed[i].id = id})
    + (IF id \in dropped THEN 1 ELSE 0)
    + (IF id \in faulted THEN 1 ELSE 0)

\* C17: under every interleaving of the message thread's add_task calls, the
\* executor's iterations and the drains they trigger, every task add_task
\* accepted is in exactly one of the states queued, current, completed or
\* dropped by a drain, and no other task is in any.
C17_NoLossNoDup ==
    /\ \A id \in 1..accepted : Places(id) = 1
    /\ \A id \in (accepted + 1)..MaxTasks : Places(id) = 0
    /\ Len(task_queue) + Len(current_task) + Len(completed)
         + Cardinality(dropped) + Cardinality(faulted) = accepted

\* a drain has run while an add_task call of the message thread waited for
\* queue_lock behind the executor
C17_Witness ==
    /\ pending # None
    /\ task_paused
    /\ faulted # {}
    /\ accepted = 1

\* C18: an add_task call that waits for queue_lock while the executor is
\* paused, or while it awaits a completion status that does not arrive,
\* eventually takes the lock and returns.
C18_AddTaskReturns ==
    (pending # None /\ (task_paused \/ Wedged))
      ~> (pending = None \/ ~(task_paused \/ Wedged))

\* C19: a task whose publish call raised is published once and not again,
\* is still the current task and is never completed or ended; no task is
\* dispatched after it.
C19_FailedPublishStuck ==
    \A id \in publish_failed :
        /\ pub_count[id] = 1
        /\ id \in Dispatched
        /\ id \notin Ended
        /\ current_task # None /\ The(current_task).id = id
        /\ LastDispatched = id

\* a task whose publish call raised has been completed
C19_Witness ==
    /\ publish_failed \cap CompletedIds # {}
    /\ last_event.check = "complete"
    /\ last_event.id \in publish_failed

\* C20: a tick that detects a completion, normal or by fault or override,
\* clears the task it checked and records the completion time: after the
\* tick task_completion_time is set, unless the same tick already found the
\* cooldown of that completion over.
C20_CompletionRecorded ==
    (last_event.op = "tick" /\ last_event.check \in {"complete", "fault"})
    => /\ last_event.id \notin Ids(current_task)
       /\ \/ task_completion_time # None
          \/ /\ last_event.check = "complete"
             /\ now - completed[Len(completed)].at >= task_completion_delay

\* a fault has just ended a Navigation task and no completion time is recorded
C20_Witness ==
    /\ last_event.op = "tick"
    /\ last_event.check = "fault"
    /\ current_task = None
    /\ task_completion_time = None

\* C21: a Navigation task is never reported complete on a goal-reached status
\* (2) stored before its dispatch: the tick that completes a Navigation task
\* (which it does only on nav_status = 2) follows a call of update_nav_status
\* made after the task was dispatched.
C21_NoStaleGoalReached ==
    [][(/\ last_event'.op = "tick"
        /\ last_event'.check = "complete"
        /\ last_event'.task_type = "navigation")
       => nav_reported]_vars

\* the cooldown in force, if any, has run its task_completion_delay
CooldownOver ==
    task_completion_time = None \/ now - The(task_completion_time) >= task_completion_delay

\* C22: under weak fairness of the executor loop, if the queue is never paused,
\* every task in flight is completed at some time and the clock runs past
\* every cooldown, then every task add_task put in the queue is dispatched at
\* some time; and a tick that finds no current task, no cooldown and a
\* non-empty queue pops the head, records its start time and makes it current.
C22_EventuallyDispatched ==
    /\ ([]~task_paused /\ []<>(current_task = None) /\ []<>CooldownOver)
         => \A id \in 1..MaxTasks : (id \in Ids(task_queue)) ~> (id \in Dispatched)
    /\ [][(/\ last_event'.op = "tick"
            /\ ~task_paused
            /\ current_task = None
            /\ task_completion_time = None
            /\ Len(task_queue) > 0)
           => /\ last_event'.dispatched = task_queue[1].id
              /\ dispatch_log' = Append(dispatch_log, task_queue[1].id)
              /\ task_queue' = Tail(task_queue)
              /\ current_task' = Some([task_queue[1] EXCEPT !.start_time = Some(now')])
              /\ pub_count' = [pub_count EXCEPT ![task_queue[1].id] =
                                                @ + Len(execute_task(task_queue[1]))]]_vars

\* a task waits in the queue behind a cooldown that has run out
C22_Witness ==
    /\ Len(task_queue) > 0
    /\ current_task = None
    /\ ~task_paused
    /\ task_completion_time # None
    /\ CooldownOver
    /\ Len(dispatch_log) > 0

\* C23: in mqtt2ros every task execute_next_task takes from the queue has
\* exactly one actuator message published for it in the call that dispatches
\* it, whatever nav_status and arm_running_status are, and every publish call
\* is made for the task that is current.
C23_OnePublishPerDispatch ==
    [][node = "mqtt2ros" =>
         /\ \A id \in 1..MaxTasks :
               (id \in Dispatched' /\ id \notin Dispatched) => pub_count'[id] = 1
         /\ \A id \in 1..MaxTasks :
               pub_count'[id] > pub_count[id] => id \in Dispatched' /\ id \notin Dispatched
         /\ last_pub' # last_pub => last_pub'.id # 0]_vars

\* an arm task is current and nothing was published for it
C23_Witness ==
    /\ node = "mqtt2ros"
    /\ current_task # None
    /\ The(current_task).type = "arm"
    /\ pub_count[The(current_task).id] = 0

\* C24: in mqtt2ros the gripper code is restricted to {1, 2}: a gripper
\* command is enqueued exactly when its code is 1 or 2, any other code leaves
\* the queue and the current task as they are, and every value published on
\* /cmdeffector is 1 or 2.
C24_GripperCodes ==
    [][node = "mqtt2ros" =>
         /\ \A m \in RosMessages :
               (m.topic = "robot/gripper/control" /\ ros_on_message(m)) =>
                   IF IsDict(m.payload) /\ Get(m.payload, "command", 0) \in {1, 2}
                     THEN accepted' = accepted + 1
                     ELSE UNCHANGED <<accepted, task_queue, current_task, dispatch_log>>
         /\ (last_pub'.topic = "/cmdeffector" /\ last_pub' # last_pub)
               => last_pub'.msg.data \in {1, 2}]_vars

\* the value __init__ gave send_cmd went out on the gripper channel
C24_Witness ==
    /\ node = "mqtt2ros"
    /\ last_pub.topic = "/cmdeffector"
    /\ last_pub.msg.data = 99

\* C25: in mqtt_manager only the completion check of a Navigation task in
\* flight pauses the queue: a step that sets task_paused or discards a task is
\* a tick whose check of the current Navigation task read nav_status 1 or 4;
\* with an arm or gripper task current, or none, no step does so, and no
\* status callback changes task_paused, the queue or the current task.
C25_PauseOnlyByNavCheck ==
    [][/\ ((task_paused' /\ ~task_paused) \/ dropped' # dropped \/ faulted' # faulted)
           => /\ current_task # None
              /\ The(current_task).task_type = "navigation"
              /\ nav_status \in {1, 4}
              /\ last_event'.op = "tick"
              /\ last_event'.check = "fault"
       /\ (last_event'.op \in {"update_nav_status", "update_arm_status"})
           => UNCHANGED <<task_paused, task_queue, current_task>>]_vars

\* an arm or gripper task was completed by a tick while nav_status told a
\* fault or an override, and the queue behind it is still there
C25_Witness ==
    /\ last_event.op = "tick"
    /\ last_event.check = "complete"
    /\ last_event.task_type \in {"arm_command", "arm_coordinate", "gripper"}
    /\ nav_status \in {1, 4}
    /\ ~task_paused
    /\ Len(dispatch_log) = 2

\* C26: in mqtt_manager, in every reachable state, task_paused implies that
\* the task queue is empty and that no task is current, whatever the
\* interleaving of enqueues, ticks, status updates and resume calls.
C26_PausedIsEmpty ==
    task_paused => (task_queue = << >> /\ current_task = None)

\* the queue is paused after a drain, and an add_task call waits at queue_lock
C26_Witness ==
    /\ task_paused
    /\ faulted # {}
    /\ pending # None

\* C27: in mqtt_manager, once the queue is paused, no MQTT command, no status
\* update (not even nav_status going back to 2), no tick and no passing of
\* time clears task_paused, and no task is accepted or dispatched: every step
\* taken while paused, other than a call of resume_task_queue, leaves
\* task_paused set and the queue, the accepted count and the dispatch log as
\* they are.
C27_OnlyResumeClears ==
    [][task_paused =>
         \/ last_event'.op = "resume"
         \/ /\ task_paused'
            /\ accepted' = accepted
            /\ task_queue' = task_queue
            /\ current_task' = current_task
            /\ dispatch_log' = dispatch_log]_vars

\* the queue was paused with a task in flight, and the report that nav_status
\* is back at 2 has left it paused
C27_Witness ==
    /\ task_paused
    /\ faulted # {}
    /\ nav_status = 2
    /\ last_event.op = "update_nav_status"
    /\ last_event.state = 2

\* C30: in mqtt_manager a pending cooldown and a task in flight never
\* coexist: in every reachable state current_task is not None implies
\* task_completion_time is None.
C30_NoCooldownInFlight ==
    node = "mqtt_manager" => (current_task # None => task_completion_time = None)

\* a task is in flight that was dispatched after the cooldown of an earlier one
C30_Witness ==
    /\ node = "mqtt_manager"
    /\ current_task # None
    /\ Len(completed) > 0
    /\ task_completion_time = None

\* the executor holds queue_lock and waits for self.lock, and the callback
\* that holds self.lock cannot go on
Deadlock ==
    /\ pc.executor = "block"
    /\ NeedsStatus
    /\ \/ lock = "nav" /\ ~ENABLED update_nav_status_returns
       \/ lock = "arm" /\ ~ENABLED update_arm_status_returns

\* C28: in mqtt_manager no execution deadlocks on the two mutexes: the
\* executor holds self.lock only inside queue_lock, a status callback that
\* holds self.lock runs to its end whoever holds queue_lock, so the executor
\* never waits for self.lock behind a callback that waits for queue_lock, and
\* the return of a callback leaves queue_lock with its holder.
C28_NoDeadlock ==
    /\ [](node = "mqtt_manager" =>
            /\ lock = "executor" => (queue_lock = "executor" /\ pc.executor = "status")
            /\ ~Deadlock)
    /\ [][(lock \in {"nav", "arm"} /\ lock' = "free") => queue_lock' = queue_lock]_vars

\* the executor, inside queue_lock, waits for self.lock while update_nav_status
\* holds it
C28_Witness ==
    /\ pc.executor = "block"
    /\ queue_lock = "executor"
    /\ NeedsStatus
    /\ lock = "nav"

\* C29: in both nodes a status callback never runs before self.lock exists
\* (no delivery ends in the AttributeError of "with self.lock"), and in
\* mqtt_manager the status fields change only in a step of the callback that
\* holds self.lock.
C29_LockBeforeCallbacks ==
    [][/\ last_event'.ret # "AttributeError"
       /\ (node = "mqtt_manager" /\
            <<nav_status, last_nav_status, arm_running_status, last_arm_running_status>>'
              # <<nav_status, last_nav_status, arm_running_status, last_arm_running_status>>)
           => lock \in {"nav", "arm"}]_vars

\* mqtt2ros: a status report was delivered between init_ros() and the
\* creation of self.lock
C29_Witness ==
    /\ node = "mqtt2ros"
    /\ lock = "unset"
    /\ pc.main = "lock"
    /\ last_event.op = "update_nav_status"
    /\ last_event.ret = "AttributeError"

====
